---- MODULE Spec2Model ----
(***************************************************************************)
(* Model of sociallunch_bot.py: the run of ejecutar_agente (configuration, *)
(* browser session, login, calendar scan, the per-day loop of              *)
(* procesar_dia, summary, exit status), the calendar scanner               *)
(* obtener_dias_disponibles as a function of the rendered page, and one    *)
(* call of seleccionar_item_de_categoria as a function of the listing.     *)
(*                                                                         *)
(* The browser driver is the environment: every call the code makes on it  *)
(* either returns or raises, chosen nondeterministically at the call.      *)
(***************************************************************************)
EXTENDS Integers, Sequences, FiniteSets, TLC

(***************************************************************************)
(* Bounds of the model.                                                    *)
(***************************************************************************)
\* longest page (sequence of calendar cells) handed to the scanner in SpecScan
MaxCeldas == 3
\* longest page rendered during a full run (Spec); the run's days come from it
MaxCeldasRun == 3

\* longest listing of a category when one selection is studied alone
MaxItems == 2

(***************************************************************************)
(* The rendered calendar: a page is a sequence of cells in document order. *)
(* A cell carries what the scanner reads (its text, its class attribute,   *)
(* whether it is visible, whether reading it raises) and the status the    *)
(* real calendar day has (future, past, no service, existing order), which *)
(* no line of the scanner reads.                                           *)
(***************************************************************************)
Digitos == <<"0", "1", "2", "3", "4", "5", "6", "7", "8", "9">>

EsDigito(c) == \E k \in 1..10 : Digitos[k] = c

ValorDigito(c) == (CHOOSE k \in 1..10 : Digitos[k] = c) - 1

EsEspacio(c) == c = " "

RECURSIVE QuitarIzq(_)
QuitarIzq(t) == IF t # <<>> /\ EsEspacio(Head(t)) THEN QuitarIzq(Tail(t)) ELSE t

RECURSIVE QuitarDer(_)
QuitarDer(t) ==
    IF t # <<>> /\ EsEspacio(t[Len(t)]) THEN QuitarDer(SubSeq(t, 1, Len(t) - 1)) ELSE t

\* str.strip()
strip(t) == QuitarDer(QuitarIzq(t))

\* str.isdigit(): non-empty and every character a digit
isdigit(t) == t # <<>> /\ \A k \in 1..Len(t) : EsDigito(t[k])

\* int(texto) of a digit string
RECURSIVE int(_)
int(t) == IF t = <<>> THEN 0 ELSE 10 * int(SubSeq(t, 1, Len(t) - 1)) + ValorDigito(t[Len(t)])

\* class tokens a cell may carry, and the selector substrings each contains
Tokens == {"calendar-day", "day-cell", "fecha", "active", "inactive", "disabled"}

Subcadenas(tok) ==
    CASE tok = "calendar-day" -> {"day"}
      [] tok = "day-cell"     -> {"day"}
      [] tok = "fecha"        -> {"fecha"}
      [] tok = "active"       -> {"active"}
      [] tok = "inactive"     -> {"active"}
      [] tok = "disabled"     -> {"disabled"}

\* CSS [class*="s"]: the class attribute contains s as a substring
ClaseContiene(clases, s) == \E tok \in clases : s \in Subcadenas(tok)

\* the four selectors of posibles_selectores, in order (cells are div elements)
NumSelectores == 4

SelectorCoincide(k, celda) ==
    CASE k = 1 -> "calendar-day" \in celda.clases /\ "disabled" \notin celda.clases
      [] k = 2 -> ClaseContiene(celda.clases, "day") /\ ~ClaseContiene(celda.clases, "disabled")
      [] k = 3 -> ClaseContiene(celda.clases, "fecha") /\ ~ClaseContiene(celda.clases, "disabled")
      [] k = 4 -> ClaseContiene(celda.clases, "active")

\* indices (element handles) of the cells of a page matched by selector k, in document order
RECURSIVE Localizar(_, _, _)
Localizar(pagina, k, desde) ==
    IF desde > Len(pagina) THEN <<>>
    ELSE (IF SelectorCoincide(k, pagina[desde]) THEN <<desde>> ELSE <<>>)
         \o Localizar(pagina, k, desde + 1)

\* the body of the loop over elementos: the cell is kept when its stripped text is a
\* day number 1..31, it is visible, and none of the reads raised
CeldaAceptada(celda) ==
    /\ ~celda.lanza
    /\ isdigit(strip(celda.texto))
    /\ 1 <= int(strip(celda.texto))
    /\ int(strip(celda.texto)) <= 31
    /\ celda.visible

RECURSIVE Recolectar(_, _)
Recolectar(pagina, elementos) ==
    IF elementos = <<>> THEN <<>>
    ELSE (IF CeldaAceptada(pagina[Head(elementos)])
             THEN <<[elemento |-> Head(elementos),
                     numero |-> int(strip(pagina[Head(elementos)].texto))]>>
             ELSE <<>>)
         \o Recolectar(pagina, Tail(elementos))

\* the loop over posibles_selectores: a selector that raises is skipped, the first one
\* that yields elements is the only one used
RECURSIVE dias_disponibles(_, _, _)
dias_disponibles(pagina, fallan, k) ==
    IF k > NumSelectores THEN <<>>
    ELSE IF k \in fallan THEN dias_disponibles(pagina, fallan, k + 1)
    ELSE IF Localizar(pagina, k, 1) # <<>> THEN Recolectar(pagina, Localizar(pagina, k, 1))
    ELSE dias_disponibles(pagina, fallan, k + 1)

\* a variant of dias_unicos that lets a later entry of a day number replace the earlier
\* one (the dictionary written without the membership test)
RECURSIVE dias_unicos_ultimo(_, _)
dias_unicos_ultimo(lista, vistos) ==
    IF lista = <<>> THEN <<>>
    ELSE IF \E k \in 2..Len(lista) : lista[k].numero = Head(lista).numero
         THEN dias_unicos_ultimo(Tail(lista), vistos)
    ELSE <<Head(lista)>> \o dias_unicos_ultimo(Tail(lista), vistos)

\* dias_unicos: the first entry of each day number
RECURSIVE dias_unicos(_, _)
dias_unicos(lista, vistos) ==
    IF lista = <<>> THEN <<>>
    ELSE IF Head(lista).numero \in vistos THEN dias_unicos(Tail(lista), vistos)
    ELSE <<Head(lista)>> \o dias_unicos(Tail(lista), vistos \cup {Head(lista).numero})

\* sorted(..., key=numero): insertion into an ascending list, stable for equal keys
RECURSIVE Insertar(_, _)
Insertar(d, lista) ==
    IF lista = <<>> THEN <<d>>
    ELSE IF d.numero < Head(lista).numero THEN <<d>> \o lista
    ELSE <<Head(lista)>> \o Insertar(d, Tail(lista))

\* a variant of sorted that leaves the list in the order the scan produced
sorted_sin_ordenar(lista) == lista

\* line 195: sorted(dias_unicos.values(), key=lambda x: x["numero"])
RECURSIVE sorted(_)
sorted(lista) ==
    IF lista = <<>> THEN <<>>
    ELSE Insertar(lista[Len(lista)], sorted(SubSeq(lista, 1, Len(lista) - 1)))

obtener_dias_disponibles(pagina, fallan) ==
    sorted(dias_unicos(dias_disponibles(pagina, fallan, 1), {}))


(***************************************************************************)
(* Pages.  A cell of a page is a record; Celda builds one.                 *)
(***************************************************************************)
Celda(texto, clases, visible, lanza, fut, pas, sin, ped) ==
    [texto |-> texto, clases |-> clases, visible |-> visible, lanza |-> lanza,
     isFuture |-> fut, isPast |-> pas, hasNoService |-> sin, hasExistingOrder |-> ped]

\* the decimal text of a day number below 100, as the page renders it
TextoDe(n) == IF n < 10 THEN <<Digitos[n + 1]>> ELSE <<Digitos[(n \div 10) + 1], Digitos[(n % 10) + 1]>>

\* an ordinary open day: matched by the first selector, visible, future, no order yet
CeldaAbierta(n) == Celda(TextoDe(n), {"calendar-day"}, TRUE, FALSE, TRUE, FALSE, FALSE, FALSE)

\* the cells the scanner is exercised on: open days, a day without service and a day
\* with an order that the page does not mark as disabled, past days marked disabled or
\* inactive, texts that are not day numbers, the other class attributes, hidden and
\* unreadable cells
CeldasScan ==
    { CeldaAbierta(1), CeldaAbierta(2),
      Celda(<<"1">>, {"calendar-day"}, TRUE, FALSE, TRUE, FALSE, TRUE, FALSE),
      Celda(<<"2">>, {"calendar-day"}, TRUE, FALSE, TRUE, FALSE, FALSE, TRUE),
      Celda(<<"2">>, {"day-cell"}, TRUE, FALSE, TRUE, FALSE, FALSE, FALSE),
      Celda(<<" ", "2", " ">>, {"calendar-day"}, TRUE, FALSE, TRUE, FALSE, FALSE, FALSE),
      Celda(<<"3", "2">>, {"calendar-day"}, TRUE, FALSE, TRUE, FALSE, FALSE, FALSE),
      Celda(<<"x">>, {"calendar-day"}, TRUE, FALSE, TRUE, FALSE, FALSE, FALSE),
      Celda(<<"1">>, {"calendar-day", "disabled"}, TRUE, FALSE, FALSE, TRUE, FALSE, FALSE),
      Celda(<<"2">>, {"inactive"}, TRUE, FALSE, FALSE, TRUE, FALSE, FALSE),
      Celda(<<"1">>, {"fecha"}, TRUE, FALSE, TRUE, FALSE, FALSE, FALSE),
      Celda(<<"2">>, {"calendar-day"}, FALSE, FALSE, TRUE, FALSE, FALSE, FALSE),
      Celda(<<"1">>, {"calendar-day"}, TRUE, TRUE, TRUE, FALSE, FALSE, FALSE) }

\* which of the selectors raise during a scan
FallanScan == {{}, {1}, {1, 2}, 1..NumSelectores}

\* the cells rendered during a full run: open days with these numbers
NumerosRun == {5, 12, 19}

CeldasRun == { CeldaAbierta(n) : n \in NumerosRun }

FallanRun == {{}, 1..NumSelectores}

SeqsHasta(S, n) == UNION { [1..k -> S] : k \in 0..n }

(***************************************************************************)
(* State.                                                                  *)
(***************************************************************************)
VARIABLES
    pc,            \* position in ejecutar_agente / procesar_dia
    usuario,       \* SOCIALLUNCH_USER: "absent", "empty" or "set"
    password,      \* SOCIALLUNCH_PASS: "absent", "empty" or "set"
    dry_run,       \* --dry-run
    pagina,        \* the rendered calendar
    fallan,        \* the selectors whose lookup raises during the scan
    dias,          \* the list obtener_dias_disponibles returned
    idx,           \* position of the for loop over dias
    exitos,        \* counter exitos
    errores,       \* counter errores
    pendiente,     \* what is propagating: "none", "SystemExit0", "SystemExit1", "Exception"
    exit_code,     \* the process exit status, -1 while running
    launched,      \* the browser has been launched
    close_calls,   \* calls of browser.close()
    driver_usado,  \* some call on the page has been made
    scans,         \* calls of obtener_dias_disponibles
    inicios,       \* day numbers procesar_dia was called with, in call order
    outcomes,      \* per finished day: what procesar_dia returned and what it found
    ret,           \* return value of the running procesar_dia: "none", "True", "False"
    acts,          \* driver-level calls of the running procesar_dia, in order
    sin_servicio,  \* the running day showed the no-service marker
    confirmado,    \* confirmar_pedido of the running day: "none", "True", "False"
    cat_res,       \* results of the category selections of the running day
    ubicacion,     \* return value of seleccionar_ubicacion in the running day, or "none"
    fallo,         \* the call whose exception reached procesar_dia's handler, or "none"
    recuperado,    \* whether the handler's navigation to the root URL succeeded, or "none"
    login_res,     \* how login ended: "none", "hola", "no_hola", "raise"
    excepcion,     \* the run-level call that raised: "none", "launch", "new_context",
                   \* "login", "close"
    sel_in,        \* arguments and driver outcomes of one seleccionar_item_de_categoria
    sel_out        \* what that call returned and which item's AGREGAR it clicked

vars == <<pc, usuario, password, dry_run, pagina, fallan, dias, idx, exitos, errores,
          pendiente, exit_code, launched, close_calls, driver_usado, scans, inicios,
          outcomes, ret, acts, sin_servicio, confirmado, cat_res, ubicacion, fallo,
          recuperado, login_res, excepcion, sel_in, sel_out>>

entorno == <<usuario, password, dry_run, pagina, fallan>>

dia_vars == <<ret, acts, sin_servicio, confirmado, cat_res, ubicacion, fallo, recuperado>>

run_hist == <<login_res, excepcion>>

sel_vars == <<sel_in, sel_out>>

Entornos == {"absent", "empty", "set"}

\* a Python bool held in a variable that is "none" before the call returns
Bool(b) == IF b THEN "True" ELSE "False"

\* the record sel_in holds while no call of seleccionar_item_de_categoria is under study
sel_in_reposo ==
    [nav |-> "ok", categoria |-> 1, candidatos |-> <<>>, eleccion |-> 1,
     padre |-> FALSE, alt |-> FALSE, primero |-> FALSE]

\* the record sel_out holds until the call under study has returned
sel_out_reposo == [hecho |-> FALSE, ret |-> FALSE, clic |-> 0]

InitComun ==
    /\ sel_in = sel_in_reposo
    /\ sel_out = sel_out_reposo
    /\ pc = "get_config"
    /\ dias = <<>>
    /\ idx = 0
    /\ exitos = 0
    /\ errores = 0
    /\ pendiente = "none"
    /\ exit_code = -1
    /\ launched = FALSE
    /\ close_calls = 0
    /\ driver_usado = FALSE
    /\ scans = 0
    /\ inicios = <<>>
    /\ outcomes = <<>>
    /\ ret = "none"
    /\ acts = <<>>
    /\ sin_servicio = FALSE
    /\ confirmado = "none"
    /\ cat_res = <<>>
    /\ ubicacion = "none"
    /\ fallo = "none"
    /\ recuperado = "none"
    /\ login_res = "none"
    /\ excepcion = "none"

Init ==
    /\ usuario \in Entornos
    /\ password \in Entornos
    /\ dry_run \in BOOLEAN
    /\ pagina \in SeqsHasta(CeldasRun, MaxCeldasRun)
    /\ fallan \in FallanRun
    /\ InitComun


(***************************************************************************)
(* ejecutar_agente before the day loop.                                    *)
(***************************************************************************)
\* "not v" of an environment value: absent (None) and the empty string are falsy
Falsy(v) == v \in {"absent", "empty"}

\* a variant of get_config that exits only when both credentials are missing
get_config_ambas(u, p) == IF Falsy(u) /\ Falsy(p) THEN "SystemExit1" ELSE "none"

\* get_config: sys.exit(1) when a credential is missing
get_config(u, p) == IF Falsy(u) \/ Falsy(p) THEN "SystemExit1" ELSE "none"

\* the status the interpreter exits with: the code of a SystemExit, 1 for an
\* exception nobody caught, 0 when the script runs to its end
CodigoSalida(pend) ==
    CASE pend = "none"        -> 0
      [] pend = "SystemExit0" -> 0
      [] pend = "SystemExit1" -> 1
      [] pend = "Exception"   -> 1

\* line 398: nothing encloses the call, so its SystemExit ends the process
GetConfig ==
    /\ pc = "get_config"
    /\ pendiente' = get_config(usuario, password)
    /\ pc' = IF get_config(usuario, password) = "none" THEN "launch" ELSE "exit"
    /\ UNCHANGED <<entorno, sel_vars, dias, idx, exitos, errores, exit_code, launched, close_calls,
                   driver_usado, scans, inicios, outcomes, dia_vars, run_hist>>

\* lines 410-414: sync_playwright() and chromium.launch; a failure here is caught by nobody
Launch ==
    /\ pc = "launch"
    /\ \E ok \in BOOLEAN :
         /\ launched' = ok
         /\ pendiente' = IF ok THEN "none" ELSE "Exception"
         /\ pc' = IF ok THEN "new_context" ELSE "exit"
         /\ excepcion' = IF ok THEN "none" ELSE "launch"
    /\ UNCHANGED <<entorno, sel_vars, dias, idx, exitos, errores, exit_code, close_calls,
                   driver_usado, scans, inicios, outcomes, dia_vars, login_res>>

\* where control goes when new_context / new_page / set_default_timeout raise: these
\* lines precede the try statement, so neither its handler nor its finally runs
tras_fallo_de_contexto == "exit"

\* lines 416-422
NewContext ==
    /\ pc = "new_context"
    /\ \E ok \in BOOLEAN :
         /\ pendiente' = IF ok THEN "none" ELSE "Exception"
         /\ pc' = IF ok THEN "login" ELSE tras_fallo_de_contexto
         /\ excepcion' = IF ok THEN "none" ELSE "new_context"
    /\ UNCHANGED <<entorno, sel_vars, dias, idx, exitos, errores, exit_code, launched, close_calls,
                   driver_usado, scans, inicios, outcomes, dia_vars, login_res>>

\* a variant of tras_login that goes on to the scan when login returned false
tras_login_sin_abortar(r) ==
    CASE r = "raise"   -> [pend |-> "SystemExit1", pc |-> "finally"]
      [] r = "no_hola" -> [pend |-> "none", pc |-> "scan"]
      [] r = "hola"    -> [pend |-> "none", pc |-> "scan"]

\* what the try block does with the result of login: an exception is turned into
\* sys.exit(1) by the handler of line 461, a false result by line 428
tras_login(r) ==
    CASE r = "raise"   -> [pend |-> "SystemExit1", pc |-> "finally"]
      [] r = "no_hola" -> [pend |-> "SystemExit1", pc |-> "finally"]
      [] r = "hola"    -> [pend |-> "none", pc |-> "scan"]

\* lines 426-428 with login (82-140): it raises (goto, the password fill, a wait or the
\* marker lookup failed), or returns whether the text HOLA is on the page
Login ==
    /\ pc = "login"
    /\ driver_usado' = TRUE
    /\ \E r \in {"raise", "hola", "no_hola"} :
         /\ pendiente' = tras_login(r).pend
         /\ pc' = tras_login(r).pc
         /\ login_res' = r
         /\ excepcion' = IF r = "raise" THEN "login" ELSE "none"
    /\ UNCHANGED <<entorno, sel_vars, dias, idx, exitos, errores, exit_code, launched, close_calls,
                   scans, inicios, outcomes, dia_vars>>

\* lines 433-435: sys.exit(0) when the scan returned nothing
tras_scan(ds) ==
    IF ds = <<>> THEN [pend |-> "SystemExit0", pc |-> "finally"]
    ELSE [pend |-> "none", pc |-> "loop"]

\* lines 431-441
ObtenerDias ==
    /\ pc = "scan"
    /\ dias' = obtener_dias_disponibles(pagina, fallan)
    /\ scans' = scans + 1
    /\ pendiente' = tras_scan(dias').pend
    /\ pc' = tras_scan(dias').pc
    /\ idx' = 1
    /\ exitos' = 0
    /\ errores' = 0
    /\ UNCHANGED <<entorno, sel_vars, exit_code, launched, close_calls, driver_usado, inicios,
                   outcomes, dia_vars, run_hist>>


(***************************************************************************)
(* procesar_dia, one action per call it makes.                             *)
(***************************************************************************)
CATEGORIAS == <<"ENSALADAS", "POSTRES", "BEBIDAS">>

\* a variant of procesar_dia_entrada that does not look at dry_run
procesar_dia_entrada_sin_dry(dry) == [ret |-> "none", pc |-> "click"]

\* lines 339-341: a dry run returns True before the try statement
procesar_dia_entrada(dry) ==
    IF dry THEN [ret |-> "True", pc |-> "tally"] ELSE [ret |-> "none", pc |-> "click"]

\* lines 443-444 and 332-341: the loop takes the next day and calls procesar_dia
ForDia ==
    /\ pc = "loop"
    /\ idx <= Len(dias)
    /\ inicios' = Append(inicios, dias[idx].numero)
    /\ ret' = procesar_dia_entrada(dry_run).ret
    /\ pc' = procesar_dia_entrada(dry_run).pc
    /\ acts' = <<>>
    /\ sin_servicio' = FALSE
    /\ confirmado' = "none"
    /\ cat_res' = <<>>
    /\ ubicacion' = "none"
    /\ fallo' = "none"
    /\ recuperado' = "none"
    /\ UNCHANGED <<entorno, sel_vars, dias, idx, exitos, errores, pendiente, exit_code, launched,
                   close_calls, driver_usado, scans, outcomes, run_hist>>

\* line 345: the click on the day cell; its exception goes to the handler of line 385
ClickDia ==
    /\ pc = "click"
    /\ acts' = Append(acts, "click_dia")
    /\ driver_usado' = TRUE
    /\ \E ok \in BOOLEAN :
         /\ pc' = IF ok THEN "ubicacion" ELSE "except"
         /\ fallo' = IF ok THEN "none" ELSE "click_dia"
    /\ UNCHANGED <<entorno, sel_vars, dias, idx, exitos, errores, pendiente, exit_code, launched,
                   close_calls, scans, inicios, outcomes, ret, sin_servicio, confirmado,
                   cat_res, ubicacion, recuperado, run_hist>>

\* a variant of seleccionar_ubicacion that reports a prompt it did not find, or a lookup
\* that raised, as a failure
seleccionar_ubicacion_estricta(o) ==
    CASE o = "clic"          -> "True"
      [] o = "no_encontrado" -> "False"
      [] o = "error"         -> "False"

\* seleccionar_ubicacion (201-234): the prompt is clicked, is not found, or the lookup
\* raises; every path returns True
seleccionar_ubicacion(o) ==
    CASE o = "clic"          -> "True"
      [] o = "no_encontrado" -> "True"
      [] o = "error"         -> "True"

\* line 349
SeleccionarUbicacion ==
    /\ pc = "ubicacion"
    /\ acts' = Append(acts, "ubicacion")
    /\ \E o \in {"clic", "no_encontrado", "error"} : ubicacion' = seleccionar_ubicacion(o)
    /\ pc' = "wait"
    /\ UNCHANGED <<entorno, sel_vars, dias, idx, exitos, errores, pendiente, exit_code, launched,
                   close_calls, driver_usado, scans, inicios, outcomes, ret, sin_servicio,
                   confirmado, cat_res, fallo, recuperado, run_hist>>

\* line 352: wait_for_load_state
EsperarCarga ==
    /\ pc = "wait"
    /\ acts' = Append(acts, "wait")
    /\ \E ok \in BOOLEAN :
         /\ pc' = IF ok THEN "check" ELSE "except"
         /\ fallo' = IF ok THEN "none" ELSE "wait"
    /\ UNCHANGED <<entorno, sel_vars, dias, idx, exitos, errores, pendiente, exit_code, launched,
                   close_calls, driver_usado, scans, inicios, outcomes, ret, sin_servicio,
                   confirmado, cat_res, ubicacion, recuperado, run_hist>>

\* line 356: where the service check leads: the marker is on the page, is not, or the
\* lookup raises
tras_verificar(r) ==
    CASE r = "marker"    -> "sin_servicio"
      [] r = "no_marker" -> "cat"
      [] r = "raise"     -> "except"

VerificarServicio ==
    /\ pc = "check"
    /\ acts' = Append(acts, "check")
    /\ \E r \in {"marker", "no_marker", "raise"} :
         /\ pc' = tras_verificar(r)
         /\ sin_servicio' = (r = "marker")
         /\ fallo' = IF r = "raise" THEN "check" ELSE "none"
    /\ UNCHANGED <<entorno, sel_vars, dias, idx, exitos, errores, pendiente, exit_code, launched,
                   close_calls, driver_usado, scans, inicios, outcomes, ret, confirmado,
                   cat_res, ubicacion, recuperado, run_hist>>

\* lines 358-362: VOLVER is clicked; when that fails go_back is called, and its
\* exception is not caught here
volver_sin_servicio(v, g) ==
    IF v THEN [acts |-> <<"volver">>, ok |-> TRUE]
    ELSE [acts |-> <<"volver", "go_back">>, ok |-> g]

SinServicio ==
    /\ pc = "sin_servicio"
    /\ \E v \in BOOLEAN, g \in BOOLEAN :
         /\ acts' = acts \o volver_sin_servicio(v, g).acts
         /\ ret' = IF volver_sin_servicio(v, g).ok THEN "True" ELSE "none"
         /\ pc' = IF volver_sin_servicio(v, g).ok THEN "tally" ELSE "except"
         /\ fallo' = IF volver_sin_servicio(v, g).ok THEN "none" ELSE "go_back"
    /\ UNCHANGED <<entorno, sel_vars, dias, idx, exitos, errores, pendiente, exit_code, launched,
                   close_calls, driver_usado, scans, inicios, outcomes, sin_servicio,
                   confirmado, cat_res, ubicacion, recuperado, run_hist>>

(***************************************************************************)
(* seleccionar_item_de_categoria (237-308).  Texts are tuples of            *)
(* characters.  A candidate is an item listed in the open category: desc   *)
(* is its description, visible says whether the element holding the        *)
(* description is visible (line 258), card whether the ancestor lookup of   *)
(* lines 272-275 finds a card holding an AGREGAR button.                   *)
(***************************************************************************)
Mayusculas ==
    <<"A", "B", "C", "D", "E", "F", "G", "H", "I", "J", "K", "L", "M", "N", "O", "P", "Q", "R", "S", "T", "U", "V", "W", "X", "Y", "Z", "Ó">>

Minusculas ==
    <<"a", "b", "c", "d", "e", "f", "g", "h", "i", "j", "k", "l", "m", "n", "o", "p", "q", "r", "s", "t", "u", "v", "w", "x", "y", "z", "ó">>

\* the lower-case form of one character
lower_c(c) ==
    IF \E i \in 1..Len(Mayusculas) : Mayusculas[i] = c
    THEN Minusculas[CHOOSE i \in 1..Len(Mayusculas) : Mayusculas[i] = c]
    ELSE c

\* str.lower()
lower(texto) == [i \in 1..Len(texto) |-> lower_c(texto[i])]

\* the regular expression /keyword/i of line 255 finds keyword somewhere in texto,
\* letters compared without regard to case
coincide_i(keyword, texto) ==
    \E d \in 0..(Len(texto) - Len(keyword)) :
        \A i \in 1..Len(keyword) : lower_c(texto[d + i]) = lower_c(keyword[i])

\* get_config, line 55
ensaladas_keywords ==
    <<<<"e", "n", "s", "a", "l", "a", "d", "a">>>>

\* get_config, lines 57-62
postres_preferidos ==
    <<<<"a", "l", "f", "a", "j", "o", "r", " ", "d", "e", " ", "c", "h", "o", "c", "o", "l", "a", "t", "e">>,
      <<"c", "o", "o", "k", "i", "e">>,
      <<"c", "u", "a", "d", "r", "a", "d", "o", " ", "d", "e", " ", "l", "i", "m", "o", "n">>,
      <<"c", "u", "a", "d", "r", "a", "d", "o", " ", "d", "e", " ", "l", "i", "m", "ó", "n">>>>

\* get_config, lines 64-69
bebidas_preferidas ==
    <<<<"c", "o", "c", "a", " ", "z", "e", "r", "o">>,
      <<"c", "o", "c", "a", "-", "c", "o", "l", "a", " ", "z", "e", "r", "o">>,
      <<"p", "e", "p", "s", "i", " ", "l", "i", "g", "h", "t">>,
      <<"p", "e", "p", "s", "i", " ", "z", "e", "r", "o">>>>

\* lines 365-367: the keyword list each call is given, by position in CATEGORIAS
keywords_de_categoria(k) ==
    CASE k = 1 -> ensaladas_keywords
      [] k = 2 -> postres_preferidos
      [] k = 3 -> bebidas_preferidas

Indices(n) == [i \in 1..n |-> i]

\* line 255: the elements whose text the keyword's expression finds, in document order
elementos(keyword, candidatos) ==
    SelectSeq(Indices(Len(candidatos)), LAMBDA i : coincide_i(keyword, candidatos[i].desc))

\* lines 253-263: keyword by keyword, the visible elements found, as indices of candidatos
RECURSIVE items_encontrados(_, _)
items_encontrados(keywords, candidatos) ==
    IF keywords = <<>> THEN <<>>
    ELSE SelectSeq(elementos(Head(keywords), candidatos), LAMBDA i : candidatos[i].visible)
         \o items_encontrados(Tail(keywords), candidatos)

\* a variant of primero_disponible that takes the last AGREGAR button of the page
primero_disponible_ultimo(candidatos, primero) ==
    IF candidatos # <<>> /\ primero
    THEN [ret |-> TRUE, clic |-> Len(candidatos)]
    ELSE [ret |-> FALSE, clic |-> 0]

\* lines 293-301: page.click on the text AGREGAR takes the first such button of the page,
\* the one of the first listed candidate; primero says whether that click succeeds.
\* With nothing listed there is no button and the click times out.
primero_disponible(candidatos, primero) ==
    IF candidatos # <<>> /\ primero
    THEN [ret |-> TRUE, clic |-> 1]
    ELSE [ret |-> FALSE, clic |-> 0]

\* seleccionar_item_de_categoria (237-308): nav is the click on the category and the
\* waits after it ("ok", "timeout", "error"); eleccion is the position random.choice
\* takes in items_encontrados; padre and alt say whether the AGREGAR clicks of lines
\* 277 and 286 succeed.  The result is the returned bool and the index of the candidate
\* whose AGREGAR was clicked, 0 when none was.
seleccionar_item_de_categoria(nav, candidatos, keywords, eleccion, padre, alt, primero) ==
    LET items == items_encontrados(keywords, candidatos)
        item  == items[eleccion]
    IN  IF nav # "ok" THEN [ret |-> FALSE, clic |-> 0]
        ELSE IF items # <<>> /\ candidatos[item].card /\ padre
             THEN [ret |-> TRUE, clic |-> item]
        ELSE IF items # <<>> /\ alt
             THEN [ret |-> TRUE, clic |-> 1]
        ELSE primero_disponible(candidatos, primero)

Item(desc, visible, card) == [desc |-> desc, visible |-> visible, card |-> card]

ALFAJOR == <<"A", "l", "f", "a", "j", "o", "r", " ", "d", "e", " ", "C", "h", "o", "c", "o", "l", "a", "t", "e">>

TORTA == <<"T", "o", "r", "t", "a">>

CAESAR == <<"E", "n", "s", "a", "l", "a", "d", "a", " ", "C", "a", "e", "s", "a", "r">>

COCA == <<"C", "O", "C", "A", " ", "Z", "E", "R", "O">>

\* the items a category lists when one call is studied alone
ItemsSel ==
    { Item(ALFAJOR, TRUE, TRUE), Item(ALFAJOR, TRUE, FALSE), Item(ALFAJOR, FALSE, TRUE),
      Item(TORTA, TRUE, TRUE), Item(CAESAR, TRUE, TRUE), Item(COCA, TRUE, TRUE) }

\* the listings a category shows during a full run
CandidatosRun ==
    { <<>>, <<Item(TORTA, TRUE, TRUE)>>,
      <<Item(CAESAR, TRUE, TRUE), Item(ALFAJOR, TRUE, TRUE), Item(COCA, TRUE, FALSE)>> }

\* the length of the longest listing of CandidatosRun
MaxItemsRun ==
    CHOOSE n \in { Len(c) : c \in CandidatosRun } : \A c \in CandidatosRun : Len(c) <= n

\* the positions random.choice can return for a list, 1 standing in when the list is empty
Elecciones(keywords, candidatos) ==
    IF items_encontrados(keywords, candidatos) = <<>> THEN {1}
    ELSE 1..Len(items_encontrados(keywords, candidatos))

\* the arguments and driver outcomes of the k-th call of a day during a full run
EntradasRun(k) ==
    { e \in [nav : {"ok", "timeout", "error"}, candidatos : CandidatosRun,
             eleccion : 1..MaxItemsRun, padre : BOOLEAN, alt : BOOLEAN,
             primero : BOOLEAN] :
        e.eleccion \in Elecciones(keywords_de_categoria(k), e.candidatos) }

\* what the k-th call of a day can return during a full run
ResultadosRun ==
    [k \in 1..Len(CATEGORIAS) |->
        { seleccionar_item_de_categoria(e.nav, e.candidatos, keywords_de_categoria(k),
                                        e.eleccion, e.padre, e.alt, e.primero).ret :
            e \in EntradasRun(k) }]

\* a variant of tras_categoria that goes straight to the return to the calendar when the
\* last selection added nothing
tras_categoria_sin_confirmar(res, k) ==
    IF k = Len(CATEGORIAS) THEN (IF res THEN "confirmar" ELSE "volver") ELSE "cat"

\* a variant of tras_categoria in which a failed selection ends the day in the handler
tras_categoria_abortando(res, k) ==
    IF ~res THEN "except"
    ELSE IF k = Len(CATEGORIAS) THEN "confirmar" ELSE "cat"

\* lines 365-370: where procesar_dia goes after the k-th selection returned res: to the
\* next selection, or after the last one to confirmar_pedido; res is not read
tras_categoria(res, k) == IF k = Len(CATEGORIAS) THEN "confirmar" ELSE "cat"

\* lines 365-367: the three calls, in the order of CATEGORIAS; the result is not read
SeleccionarItem ==
    /\ pc = "cat"
    /\ Len(cat_res) < Len(CATEGORIAS)
    /\ acts' = Append(acts, CATEGORIAS[Len(cat_res) + 1])
    /\ \E res \in ResultadosRun[Len(cat_res) + 1] :
         /\ cat_res' = Append(cat_res, res)
         /\ pc' = tras_categoria(res, Len(cat_res) + 1)
    /\ UNCHANGED <<entorno, sel_vars, dias, idx, exitos, errores, pendiente, exit_code, launched,
                   close_calls, driver_usado, scans, inicios, outcomes, ret, sin_servicio,
                   confirmado, ubicacion, fallo, recuperado, run_hist>>

\* confirmar_pedido (311-329): two attempts to click CONFIRMAR, every exception caught
confirmar_pedido(c1, c2) == Bool(c1 \/ c2)

\* a variant of tras_confirmar in which a confirmation that returned False ends the day
\* in the handler
tras_confirmar_estricta(c) == IF c = "False" THEN "except" ELSE "volver"

\* line 370 and what procesar_dia does with the result: nothing, it goes on to line 372
tras_confirmar(c) == "volver"

ConfirmarPedido ==
    /\ pc = "confirmar"
    /\ acts' = Append(acts, "confirmar")
    /\ \E c1 \in BOOLEAN, c2 \in BOOLEAN :
         /\ confirmado' = confirmar_pedido(c1, c2)
         /\ pc' = tras_confirmar(confirmar_pedido(c1, c2))
    /\ UNCHANGED <<entorno, sel_vars, dias, idx, exitos, errores, pendiente, exit_code, launched,
                   close_calls, driver_usado, scans, inicios, outcomes, ret, sin_servicio,
                   cat_res, ubicacion, fallo, recuperado, run_hist>>

\* lines 374-380: VOLVER, then go_back, then goto(url); only the last one's exception
\* leaves the chain
volver_al_calendario(v, g, n) ==
    IF v THEN [acts |-> <<"volver">>, ok |-> TRUE]
    ELSE IF g THEN [acts |-> <<"volver", "go_back">>, ok |-> TRUE]
    ELSE [acts |-> <<"volver", "go_back", "goto">>, ok |-> n]

\* lines 372-383
Volver ==
    /\ pc = "volver"
    /\ \E v \in BOOLEAN, g \in BOOLEAN, n \in BOOLEAN :
         /\ acts' = acts \o volver_al_calendario(v, g, n).acts
         /\ ret' = IF volver_al_calendario(v, g, n).ok THEN "True" ELSE "none"
         /\ pc' = IF volver_al_calendario(v, g, n).ok THEN "tally" ELSE "except"
         /\ fallo' = IF volver_al_calendario(v, g, n).ok THEN "none" ELSE "goto"
    /\ UNCHANGED <<entorno, sel_vars, dias, idx, exitos, errores, pendiente, exit_code, launched,
                   close_calls, driver_usado, scans, inicios, outcomes, sin_servicio,
                   confirmado, cat_res, ubicacion, recuperado, run_hist>>

\* a variant of recuperar without the inner try: a failure of the navigation leaves
\* procesar_dia and is turned into sys.exit(1) by the handler of the run
recuperar_sin_captura(ok) ==
    IF ok THEN [ret |-> "False", pc |-> "tally", pend |-> "none"]
    ELSE [ret |-> "none", pc |-> "finally", pend |-> "SystemExit1"]

\* lines 385-393: the handler navigates to the root URL, swallows a failure of that
\* navigation, and returns False
recuperar(ok) == [ret |-> "False", pc |-> "tally", pend |-> "none"]

Except ==
    /\ pc = "except"
    /\ acts' = Append(acts, "goto_inicio")
    /\ \E ok \in BOOLEAN :
         /\ ret' = recuperar(ok).ret
         /\ pc' = recuperar(ok).pc
         /\ pendiente' = recuperar(ok).pend
         /\ recuperado' = Bool(ok)
    /\ UNCHANGED <<entorno, sel_vars, dias, idx, exitos, errores, exit_code, launched, close_calls,
                   driver_usado, scans, inicios, outcomes, sin_servicio, confirmado,
                   cat_res, ubicacion, fallo, run_hist>>

(***************************************************************************)
(* ejecutar_agente: the tally, the summary, the finally clause, the exit.  *)
(***************************************************************************)
\* lines 444-447
contar(r, ex, er) == IF r = "True" THEN [exitos |-> ex + 1, errores |-> er]
                     ELSE [exitos |-> ex, errores |-> er + 1]

Tally ==
    /\ pc = "tally"
    /\ exitos' = contar(ret, exitos, errores).exitos
    /\ errores' = contar(ret, exitos, errores).errores
    /\ outcomes' = Append(outcomes, [numero |-> dias[idx].numero, ret |-> ret,
                                     sin_servicio |-> sin_servicio,
                                     confirmado |-> confirmado,
                                     recuperado |-> recuperado])
    /\ idx' = idx + 1
    /\ pc' = "loop"
    /\ UNCHANGED <<entorno, sel_vars, dias, pendiente, exit_code, launched, close_calls,
                   driver_usado, scans, inicios, dia_vars, run_hist>>

\* a variant of resumen that never asks for exit status 1
resumen_sin_salida(er) == "none"

\* lines 458-459
resumen(er) == IF er > 0 THEN "SystemExit1" ELSE "none"

\* lines 450-459, reached when the loop has run out of days
Resumen ==
    /\ pc = "loop"
    /\ idx > Len(dias)
    /\ pendiente' = resumen(errores)
    /\ pc' = "finally"
    /\ UNCHANGED <<entorno, sel_vars, dias, idx, exitos, errores, exit_code, launched, close_calls,
                   driver_usado, scans, inicios, outcomes, dia_vars, run_hist>>

\* lines 464-465: browser.close(); when it raises, its exception replaces what was
\* propagating.  Leaving the with block of line 410 afterwards stops Playwright; that
\* is the library's work and makes no call of browser.close()
Finally ==
    /\ pc = "finally"
    /\ close_calls' = close_calls + 1
    /\ \E ok \in BOOLEAN :
         /\ pendiente' = IF ok THEN pendiente ELSE "Exception"
         /\ excepcion' = IF ok THEN excepcion ELSE "close"
    /\ pc' = "exit"
    /\ UNCHANGED <<entorno, sel_vars, dias, idx, exitos, errores, exit_code, launched,
                   driver_usado, scans, inicios, outcomes, dia_vars, login_res>>

\* the interpreter exits
Exit ==
    /\ pc = "exit"
    /\ exit_code' = CodigoSalida(pendiente)
    /\ pc' = "done"
    /\ UNCHANGED <<entorno, sel_vars, dias, idx, exitos, errores, pendiente, launched, close_calls,
                   driver_usado, scans, inicios, outcomes, dia_vars, run_hist>>

Next ==
    \/ GetConfig \/ Launch \/ NewContext \/ Login \/ ObtenerDias
    \/ ForDia \/ ClickDia \/ SeleccionarUbicacion \/ EsperarCarga \/ VerificarServicio
    \/ SinServicio \/ SeleccionarItem \/ ConfirmarPedido \/ Volver \/ Except
    \/ Tally \/ Resumen \/ Finally \/ Exit

Spec == Init /\ [][Next]_vars

(***************************************************************************)
(* The scanner alone: the run stands right after a successful login, on    *)
(* any page of CeldasScan, and obtener_dias_disponibles is applied to it.  *)
(***************************************************************************)
InitScan ==
    /\ usuario = "set"
    /\ password = "set"
    /\ dry_run \in BOOLEAN
    /\ pagina \in SeqsHasta(CeldasScan, MaxCeldas)
    /\ fallan \in FallanScan
    /\ sel_in = sel_in_reposo
    /\ sel_out = sel_out_reposo
    /\ pc = "scan"
    /\ dias = <<>>
    /\ idx = 0
    /\ exitos = 0
    /\ errores = 0
    /\ pendiente = "none"
    /\ exit_code = -1
    /\ launched = TRUE
    /\ close_calls = 0
    /\ driver_usado = TRUE
    /\ scans = 0
    /\ inicios = <<>>
    /\ outcomes = <<>>
    /\ ret = "none"
    /\ acts = <<>>
    /\ sin_servicio = FALSE
    /\ confirmado = "none"
    /\ cat_res = <<>>
    /\ ubicacion = "none"
    /\ fallo = "none"
    /\ recuperado = "none"
    /\ login_res = "hola"
    /\ excepcion = "none"

NextScan == ObtenerDias

SpecScan == InitScan /\ [][NextScan]_vars

(***************************************************************************)
(* One call of seleccionar_item_de_categoria alone: any of the three       *)
(* categories, any listing of ItemsSel, any outcome of the driver calls.   *)
(***************************************************************************)
EntradasSel ==
    { e \in [nav : {"ok", "timeout", "error"}, categoria : 1..Len(CATEGORIAS),
             candidatos : SeqsHasta(ItemsSel, MaxItems), eleccion : 1..MaxItems,
             padre : BOOLEAN, alt : BOOLEAN, primero : BOOLEAN] :
        e.eleccion \in Elecciones(keywords_de_categoria(e.categoria), e.candidatos) }

InitSel ==
    /\ usuario = "set"
    /\ password = "set"
    /\ dry_run = FALSE
    /\ pagina = <<>>
    /\ fallan = {}
    /\ sel_in \in EntradasSel
    /\ sel_out = sel_out_reposo
    /\ pc = "sel"
    /\ dias = <<>>
    /\ idx = 0
    /\ exitos = 0
    /\ errores = 0
    /\ pendiente = "none"
    /\ exit_code = -1
    /\ launched = TRUE
    /\ close_calls = 0
    /\ driver_usado = TRUE
    /\ scans = 0
    /\ inicios = <<>>
    /\ outcomes = <<>>
    /\ ret = "none"
    /\ acts = <<>>
    /\ sin_servicio = FALSE
    /\ confirmado = "none"
    /\ cat_res = <<>>
    /\ ubicacion = "none"
    /\ fallo = "none"
    /\ recuperado = "none"
    /\ login_res = "hola"
    /\ excepcion = "none"

\* the call under study: sel_out takes what the function returns for sel_in
Seleccionar ==
    /\ pc = "sel"
    /\ pc' = "sel_fin"
    /\ LET r == seleccionar_item_de_categoria(sel_in.nav, sel_in.candidatos,
                     keywords_de_categoria(sel_in.categoria), sel_in.eleccion,
                     sel_in.padre, sel_in.alt, sel_in.primero)
       IN  sel_out' = [hecho |-> TRUE, ret |-> r.ret, clic |-> r.clic]
    /\ UNCHANGED <<entorno, sel_in, dias, idx, exitos, errores, pendiente, exit_code, launched,
                   close_calls, driver_usado, scans, inicios, outcomes, dia_vars, run_hist>>

NextSel == Seleccionar

SpecSel == InitSel /\ [][NextSel]_vars


(***************************************************************************)
(* Vocabulary of the properties.                                           *)
(***************************************************************************)
EnDia == pc \in {"click", "ubicacion", "wait", "check", "sin_servicio", "cat",
                 "confirmar", "volver", "except", "tally"}

TrasElLoop == scans = 1 /\ dias # <<>> /\ pc \in {"finally", "exit", "done"}

NumerosDe(lista) == [k \in 1..Len(lista) |-> lista[k].numero]

Veces(sec, x) == Cardinality({k \in 1..Len(sec) : sec[k] = x})

\* the outcome of a day as the run reports it: procesar_dia returned False (counted
\* in errores), or returned True after printing the no-service notice, or returned True
DayOutcome(r, sin) ==
    IF r = "False" THEN "Failed" ELSE IF sin THEN "Skipped" ELSE "Success"

SinCredenciales == Falsy(usuario) \/ Falsy(password)

(***************************************************************************)
(* C1. Day isolation: whatever fails inside procesar_dia, the recovery     *)
(* navigation included, every day of the scanned list is started exactly   *)
(* once and in list order: while the loop runs the days started are        *)
(* exactly the list's prefix up to the loop position, the run leaves the   *)
(* loop only through the summary, and when it is over every day has been   *)
(* started once.                                                           *)
(***************************************************************************)
C1_DayIsolation ==
    /\ pc = "loop" => inicios = NumerosDe(SubSeq(dias, 1, idx - 1))
    /\ EnDia => /\ idx <= Len(dias)
                /\ inicios = NumerosDe(SubSeq(dias, 1, idx))
                /\ pendiente = "none"
    /\ TrasElLoop =>
         /\ inicios = NumerosDe(dias)
         /\ Len(outcomes) = Len(dias)
         /\ \A k \in 1..Len(dias) : Veces(inicios, dias[k].numero) = 1
         /\ pendiente \in {"none", "SystemExit1"} \/ excepcion = "close"

\* a run of three days is over, its first day failed and the recovery navigation
\* failed too, its second day failed with a working recovery
C1_Witness ==
    /\ pc = "done"
    /\ Len(dias) = 3
    /\ Len(inicios) = 3
    /\ outcomes[1].ret = "False" /\ outcomes[1].recuperado = "False"
    /\ outcomes[2].ret = "False" /\ outcomes[2].recuperado = "True"
    /\ outcomes[3].ret = "True"

(***************************************************************************)
(* C2. Confirmation failure: a day whose confirmar_pedido failed is        *)
(* counted as Failed, the remaining days are still processed and the run   *)
(* exits with code 1.                                                      *)
(***************************************************************************)
C2_ConfirmacionFallida ==
    /\ (pc = "tally" /\ confirmado = "False") => DayOutcome(ret, sin_servicio) = "Failed"
    /\ pc = "done" =>
         \A k \in 1..Len(outcomes) :
           outcomes[k].confirmado = "False" =>
             /\ DayOutcome(outcomes[k].ret, outcomes[k].sin_servicio) = "Failed"
             /\ Len(outcomes) = Len(dias)
             /\ errores >= 1
             /\ exit_code = 1

(***************************************************************************)
(* C3. No-service short-circuit: outside dry-run, a day whose service      *)
(* check found the no-service marker ends Skipped, and between its start   *)
(* and its end neither a category selection nor a confirmation was called. *)
(***************************************************************************)
C3_SinServicio ==
    (pc = "tally" /\ ~dry_run /\ sin_servicio) =>
      /\ DayOutcome(ret, sin_servicio) = "Skipped"
      /\ \A c \in 1..Len(CATEGORIAS) : Veces(acts, CATEGORIAS[c]) = 0
      /\ Veces(acts, "confirmar") = 0
      /\ cat_res = <<>>
      /\ confirmado = "none"

(***************************************************************************)
(* C4. Dry-run purity: in dry-run mode procesar_dia makes no driver call   *)
(* for any day (no click, location, category, confirmation or navigation), *)
(* every day ends Success and the failed count stays 0.                    *)
(***************************************************************************)
C4_DryRun ==
    dry_run =>
      /\ acts = <<>>
      /\ pc \notin {"click", "ubicacion", "wait", "check", "sin_servicio", "cat",
                    "confirmar", "volver", "except"}
      /\ cat_res = <<>> /\ confirmado = "none" /\ ubicacion = "none" /\ recuperado = "none"
      /\ pc = "tally" => ret = "True"
      /\ \A k \in 1..Len(outcomes) :
           DayOutcome(outcomes[k].ret, outcomes[k].sin_servicio) = "Success"
      /\ errores = 0
      /\ exitos = Len(outcomes)

\* a dry run over three days has ended
C4_Witness == dry_run /\ pc = "done" /\ Len(dias) = 3 /\ Len(outcomes) = 3 /\ exitos = 3

(***************************************************************************)
(* C5. Exit status: the process ends with 0 or 1 and nothing else; with 1  *)
(* exactly when a credential is missing, login returned false, some day    *)
(* was counted as failed, or a call raised at run level (browser launch,   *)
(* context creation, login, browser.close); so with 0 when the scan found  *)
(* no day (a calendar that never shows included) and when every processed  *)
(* day ended without failure.                                              *)
(***************************************************************************)
C5_ExitStatus ==
    pc = "done" =>
      /\ exit_code \in {0, 1}
      /\ exit_code = 1 <=> \/ SinCredenciales
                           \/ login_res = "no_hola"
                           \/ errores > 0
                           \/ excepcion # "none"
      /\ (scans = 1 /\ dias = <<>> /\ excepcion = "none") => exit_code = 0
      /\ (scans = 1 /\ dias # <<>> /\ excepcion = "none"
            /\ \A k \in 1..Len(outcomes) : outcomes[k].ret = "True") => exit_code = 0
      /\ (\E k \in 1..Len(outcomes) : outcomes[k].ret = "False") => exit_code = 1

\* the run ended with 0 after the calendar was never detected
C5_Witness ==
    /\ pc = "done" /\ exit_code = 0
    /\ scans = 1 /\ dias = <<>> /\ pagina # <<>> /\ fallan = 1..NumSelectores

(***************************************************************************)
(* C6. Session release: once the browser has been launched, browser.close  *)
(* has been called exactly once when the process ends, on every exit path, *)
(* a failure while creating the context or the page included.              *)
(***************************************************************************)
C6_SesionCerrada == (pc = "done" /\ launched) => close_calls = 1

(***************************************************************************)
(* C7. Authentication failure is fatal: when login returns false the run   *)
(* goes straight to its end with exit code 1; the calendar is not scanned  *)
(* and no day is started.                                                  *)
(***************************************************************************)
C7_LoginFatal ==
    login_res = "no_hola" =>
      /\ pc \in {"finally", "exit", "done"}
      /\ scans = 0
      /\ inicios = <<>>
      /\ acts = <<>>
      /\ pc = "done" => exit_code = 1

\* the run ended after login returned false on a page that shows days
C7_Witness == pc = "done" /\ login_res = "no_hola" /\ pagina # <<>> /\ fallan = {}

(***************************************************************************)
(* C8. Configuration error is fatal and early: when SOCIALLUNCH_USER or    *)
(* SOCIALLUNCH_PASS is absent or empty the run ends with exit code 1, the  *)
(* browser is never launched and no call on the driver is made.            *)
(***************************************************************************)
C8_ConfigFatal ==
    SinCredenciales =>
      /\ pc \in {"get_config", "exit", "done"}
      /\ ~launched
      /\ ~driver_usado
      /\ scans = 0 /\ inicios = <<>> /\ acts = <<>> /\ close_calls = 0
      /\ login_res = "none"
      /\ pc = "done" => exit_code = 1

\* the run ended with the user set and the password empty
C8_Witness == pc = "done" /\ usuario = "set" /\ password = "empty" /\ exit_code = 1


(***************************************************************************)
(* Vocabulary of the scanner's properties.                                 *)
(***************************************************************************)
\* the eligibility predicate over the status of a calendar day
eligible(c) == c.isFuture /\ ~c.isPast /\ ~c.hasNoService /\ ~c.hasExistingOrder

\* the cell shows a day number
EsCeldaDeDia(c) ==
    isdigit(strip(c.texto)) /\ 1 <= int(strip(c.texto)) /\ int(strip(c.texto)) <= 31

NumeroDe(c) == int(strip(c.texto))

\* cell i is the first cell of the page showing its day number
PrimeraDeSuDia(i) ==
    \A j \in 1..(i - 1) : EsCeldaDeDia(pagina[j]) => NumeroDe(pagina[j]) # NumeroDe(pagina[i])

\* cell i is an entry of the scanner's output
Aparece(i) == \E k \in 1..Len(dias) : dias[k].elemento = i

\* the selector the scan ends up using: the first one that does not raise and matches
\* some cell; 0 when there is none
SelectoresVivos ==
    {k \in 1..NumSelectores :
        k \notin fallan /\ \E i \in 1..Len(pagina) : SelectorCoincide(k, pagina[i])}

Usado ==
    IF SelectoresVivos = {} THEN 0
    ELSE CHOOSE k \in SelectoresVivos : \A m \in SelectoresVivos : k <= m

\* cell i is one of the day cells the scan enumerates
Enumerada(i) ==
    Usado # 0 /\ SelectorCoincide(Usado, pagina[i]) /\ CeldaAceptada(pagina[i])

(***************************************************************************)
(* C9. Eligibility: with the calendar detected, a calendar day cell is in  *)
(* the scanner's output if and only if its day is future, not past, has    *)
(* service and has no order yet; a past day, a no-service day or a day     *)
(* with an order is never returned.                                        *)
(***************************************************************************)
C9_Elegibilidad ==
    (pc # "scan" /\ scans = 1 /\ fallan = {}) =>
      \A i \in 1..Len(pagina) :
        (EsCeldaDeDia(pagina[i]) /\ PrimeraDeSuDia(i)) =>
          (Aparece(i) <=> eligible(pagina[i]))

(***************************************************************************)
(* C10. Deduplication and ordering: whatever cells the page exposes, the   *)
(* scanner's output is strictly ascending by day number (so no day number  *)
(* occurs twice), every entry is the first enumerated cell of its day      *)
(* number, and every enumerated day number has its entry.                  *)
(***************************************************************************)
C10_DedupOrden ==
    (pc # "scan" /\ scans = 1) =>
      /\ \A j \in 1..Len(dias) : \A k \in 1..Len(dias) :
           j < k => dias[j].numero < dias[k].numero
      /\ \A k \in 1..Len(dias) :
           /\ dias[k].elemento \in 1..Len(pagina)
           /\ Enumerada(dias[k].elemento)
           /\ dias[k].numero = NumeroDe(pagina[dias[k].elemento])
           /\ \A i \in 1..(dias[k].elemento - 1) :
                Enumerada(i) => NumeroDe(pagina[i]) # dias[k].numero
      /\ \A i \in 1..Len(pagina) :
           Enumerada(i) => \E k \in 1..Len(dias) : dias[k].numero = NumeroDe(pagina[i])

\* the page showed day 2, day 1 and day 2 again: the output is day 1 (second cell)
\* followed by day 2 (first cell)
C10_Witness ==
    /\ pc # "scan" /\ scans = 1
    /\ Len(pagina) = 3 /\ Enumerada(1) /\ Enumerada(2) /\ Enumerada(3)
    /\ NumeroDe(pagina[1]) = 2 /\ NumeroDe(pagina[2]) = 1 /\ NumeroDe(pagina[3]) = 2
    /\ pagina[1] # pagina[3]
    /\ Len(dias) = 2
    /\ dias[1] = [elemento |-> 2, numero |-> 1]
    /\ dias[2] = [elemento |-> 1, numero |-> 2]


(***************************************************************************)
(* Vocabulary of the properties of one category selection.                 *)
(***************************************************************************)
\* sub occurs in texto
contiene(texto, sub) ==
    \E d \in 0..(Len(texto) - Len(sub)) : SubSeq(texto, d + 1, d + Len(sub)) = sub

\* the candidates whose lower-cased description contains a lower-cased keyword
MatchSet(candidatos, keywords) ==
    { i \in 1..Len(candidatos) :
        \E k \in 1..Len(keywords) : contiene(lower(candidatos[i].desc), lower(keywords[k])) }

\* the match set of the call under study
MatchSetSel == MatchSet(sel_in.candidatos, keywords_de_categoria(sel_in.categoria))

\* in the call under study the category opened, every description is visible and every
\* AGREGAR click that is made succeeds
SelSinFallos ==
    /\ sel_in.nav = "ok"
    /\ \A i \in 1..Len(sel_in.candidatos) : sel_in.candidatos[i].visible
    /\ sel_in.padre /\ sel_in.alt /\ sel_in.primero

\* C11: when some candidate of the category matches a preference keyword, the item
\* whose AGREGAR click is triggered belongs to the match set, here even in a call where
\* the category opens, every description is visible and every click succeeds.
C11_PreferenceMatch ==
    (sel_out.hecho /\ SelSinFallos /\ MatchSetSel # {} /\ sel_out.clic # 0)
        => sel_out.clic \in MatchSetSel

\* C12: when the category opens and no candidate matches a keyword, only the first
\* candidate in listing order can be selected: it is selected, and the call reports
\* success, whenever the list is non-empty and the click on its AGREGAR button goes
\* through; with an empty list nothing is selected and the call reports failure; the
\* call reports success exactly when it selected something.
C12_Fallback ==
    (sel_out.hecho /\ sel_in.nav = "ok" /\ MatchSetSel = {})
        => /\ sel_out.clic \in {0, 1}
           /\ sel_out.ret <=> (sel_out.clic = 1)
           /\ (sel_in.candidatos # <<>> /\ sel_in.primero) => sel_out.clic = 1
           /\ sel_in.candidatos = <<>> => sel_out.clic = 0

\* a call with two listed candidates, none matching, that selected the first
C12_Witness ==
    /\ sel_out.hecho
    /\ sel_in.nav = "ok"
    /\ MatchSetSel = {}
    /\ Len(sel_in.candidatos) = 2
    /\ sel_in.candidatos[1] # sel_in.candidatos[2]
    /\ sel_out.clic = 1
    /\ sel_out.ret

(***************************************************************************)
(* Vocabulary of the properties of one day's pipeline.                     *)
(***************************************************************************)
\* the running (or last) day was processed for real and its service check found service
Servido ==
    /\ ~dry_run
    /\ Len(acts) >= 4
    /\ acts[4] = "check"
    /\ ~sin_servicio
    /\ fallo # "check"

\* the calls of a serviced day up to the confirmation, in order
OrdenDia == <<"click_dia", "ubicacion", "wait", "check">> \o CATEGORIAS \o <<"confirmar">>

\* the calls that return to the calendar or recover
Retornos == {"volver", "go_back", "goto", "goto_inicio"}

\* C13: on a serviced day processed for real the selections are attempted once each in
\* the order salad, dessert, drink, then the confirmation is attempted; whatever the
\* selections return, the day leaves them only through the confirmation, and no
\* failure of the day comes from them.
C13_OrdenCategorias ==
    Servido =>
        /\ \A i \in 1..Len(acts) :
              IF i <= Len(OrdenDia) THEN acts[i] = OrdenDia[i] ELSE acts[i] \in Retornos
        /\ pc = "cat" => Len(acts) = 4 + Len(cat_res) /\ Len(cat_res) < Len(CATEGORIAS)
        /\ pc = "confirmar" => Len(acts) = 4 + Len(CATEGORIAS)
        /\ pc \notin {"cat", "confirmar"} => Len(acts) >= Len(OrdenDia)
        /\ fallo \in {"none", "goto"}

\* a serviced day whose salad selection and confirmation failed and that returned True
C13_Witness ==
    /\ Servido
    /\ pc = "tally"
    /\ cat_res = <<FALSE, TRUE, TRUE>>
    /\ confirmado = "False"
    /\ ret = "True"

\* the day numbers called so far grow strictly
Ascendente(sec) == \A i \in 1..Len(sec), j \in 1..Len(sec) : i < j => sec[i] < sec[j]

\* the scan ran at most once and only after a login that showed the greeting; the loop
\* over the days is not entered and no day is called without it; the days called are the first ones of the scanned list, which is
\* ascending; at most one day is unfinished, and only while the run is inside it
C14_Estado ==
    /\ scans <= 1
    /\ scans = 1 => login_res = "hola"
    /\ (inicios # <<>> \/ pc = "loop" \/ EnDia) => scans = 1
    /\ Len(inicios) <= Len(dias)
    /\ inicios = SubSeq(NumerosDe(dias), 1, Len(inicios))
    /\ Ascendente(inicios)
    /\ Len(outcomes) = (IF EnDia THEN Len(inicios) - 1 ELSE Len(inicios))

\* a step that calls procesar_dia leaves the loop head with every earlier day finished,
\* the last call of the day before being a return to the calendar or the recovery
C14_Paso ==
    inicios' # inicios =>
        /\ pc = "loop"
        /\ Len(outcomes) = Len(inicios)
        /\ (inicios # <<>> /\ ~dry_run) => (acts # <<>> /\ acts[Len(acts)] \in Retornos)

\* C14: the calendar is scanned exactly once per run, after a successful login and
\* before the first day; the days are processed one at a time in ascending order of
\* day number, and a day is started only after the day before has finished its return
\* to the calendar or its recovery navigation.
C14_Secuencial == [](C14_Estado) /\ [][C14_Paso]_vars

\* the second day of a run is at its first call, on a page that renders the later day
\* first
C14_Witness ==
    /\ ~dry_run
    /\ pc = "click"
    /\ Len(inicios) = 2
    /\ Len(outcomes) = 1
    /\ pagina[1].texto # TextoDe(inicios[1])

\* in the running (or last) day go_back was called and another call followed it: the
\* VOLVER click and the go-back both failed
RetornoDirectoFallido ==
    \E i \in 1..Len(acts) : acts[i] = "go_back" /\ i < Len(acts)

\* the navigation to the root URL made after a failed direct return went through
NavegacionRaizLograda ==
    IF sin_servicio THEN recuperado = "True" ELSE fallo = "none"

\* C15: on a day processed for real, ordered or without service, when the VOLVER click
\* and the go-back both fail a navigation to the root URL is attempted before the day
\* ends, and when that navigation goes through the day's outcome is what it would have
\* been: Success for an ordered day, Skipped for a no-service day.
C15_Recuperacion ==
    (pc = "tally" /\ ~dry_run /\ RetornoDirectoFallido) =>
        /\ Veces(acts, "goto") + Veces(acts, "goto_inicio") >= 1
        /\ NavegacionRaizLograda =>
              DayOutcome(ret, sin_servicio) = (IF sin_servicio THEN "Skipped" ELSE "Success")

\* the run stands at the summary: the loop has run out of days
EnResumen == pc = "loop" /\ idx > Len(dias)

\* the number of finished days with the given outcome
Cuenta(o) ==
    Cardinality({ k \in 1..Len(outcomes) :
                    DayOutcome(outcomes[k].ret, outcomes[k].sin_servicio) = o })

\* C16: at the summary every processed day has been counted in exactly one tally and
\* the tallies cover the days of the run; the count reported as successful is the
\* number of days that ended Success, the no-service days being counted apart as
\* Skipped, and the count reported as failed is the number of days that ended Failed.
C16_Tallies ==
    EnResumen =>
        /\ Len(outcomes) = Len(dias)
        /\ Cuenta("Success") + Cuenta("Skipped") + Cuenta("Failed") = Len(dias)
        /\ exitos = Cuenta("Success")
        /\ errores = Cuenta("Failed")

\* C17: whatever happens to the location prompt (clicked, absent, or an error while
\* looking for it), seleccionar_ubicacion reports success, and the day goes on from the
\* location selection to the load wait and, unless that wait itself raises, to the
\* service check; no failure of the day comes from the location selection.
C17_Ubicacion ==
    /\ ubicacion \in {"none", "True"}
    /\ fallo # "ubicacion"
    /\ \A i \in 1..Len(acts) :
          acts[i] = "ubicacion" =>
              /\ ubicacion = "True"
              /\ IF i = Len(acts) THEN pc = "wait" ELSE acts[i + 1] = "wait"
              /\ i + 2 <= Len(acts) =>
                    \/ acts[i + 2] = "check"
                    \/ acts[i + 2] = "goto_inicio" /\ fallo = "wait"

\* the location selection of a day has just returned
C17_Witness ==
    /\ ~dry_run
    /\ pc = "wait"
    /\ acts = <<"click_dia", "ubicacion">>
    /\ ubicacion = "True"
    /\ fallo = "none"

\* C18: on a serviced day processed for real the return to the calendar is reached only
\* after confirmar_pedido has been called, once, right before it, also when all three
\* selections returned False.
C18_ConfirmaSiempre ==
    (Servido /\ (pc = "volver" \/ Veces(acts, "volver") >= 1)) =>
        /\ Len(cat_res) = Len(CATEGORIAS)
        /\ Veces(acts, "confirmar") = 1
        /\ confirmado # "none"
        /\ \A i \in 1..Len(acts) : acts[i] = "volver" => (i > 1 /\ acts[i - 1] = "confirmar")

\* a serviced day stands at the return to the calendar after three failed selections
\* and a confirmation attempt
C18_Witness ==
    /\ Servido
    /\ pc = "volver"
    /\ cat_res = <<FALSE, FALSE, FALSE>>
    /\ confirmado # "none"
    /\ acts[Len(acts)] = "confirmar"

\* the calls of procesar_dia whose exception reaches its handler
LlamadasFatales == {"click_dia", "wait", "check", "go_back", "goto"}

\* C19: a day processed for real is reported failed exactly when an exception was
\* raised by the click on the day cell, the load wait, the service check, or the last
\* step of the return chain (go_back on a no-service day, the navigation to the root
\* URL on an ordered day); then the recovery navigation to the root URL is attempted
\* once, right after the failing call and before the day is reported; a day reported
\* successful made no recovery navigation, whatever the location selection, the
\* category selections and the confirmation did.
C19_FalloDelDia ==
    (pc = "tally" /\ ~dry_run) =>
        /\ ret \in {"True", "False"}
        /\ ret = "False" <=> fallo \in LlamadasFatales
        /\ ret = "True" <=> fallo = "none"
        /\ fallo = "go_back" => sin_servicio
        /\ fallo = "goto" => (Servido /\ confirmado # "none")
        /\ ret = "False" =>
              /\ Veces(acts, "goto_inicio") = 1
              /\ Len(acts) >= 2
              /\ acts[Len(acts)] = "goto_inicio"
              /\ acts[Len(acts) - 1] = fallo
              /\ recuperado # "none"
        /\ ret = "True" => (Veces(acts, "goto_inicio") = 0 /\ recuperado = "none")

\* an ordered day whose whole return chain failed is reported failed after a recovery
\* navigation that failed too, its three selections and its confirmation having failed
C19_Witness ==
    /\ ~dry_run
    /\ pc = "tally"
    /\ ret = "False"
    /\ fallo = "goto"
    /\ recuperado = "False"
    /\ cat_res = <<FALSE, FALSE, FALSE>>
    /\ confirmado = "False"

====
